---- MODULE Spec2Model ----
(***************************************************************************)
(* The Datadog logs sink of src/sinks/datadog/logs/sink.rs: the            *)
(* size-bounded serializer (serialize_with_capacity), the request builder  *)
(* (LogRequestBuilder::build_request / finish_request) and the pipeline    *)
(* of LogSink::run_inner (partitioned batcher, concurrency-limited         *)
(* builder, filter_map/flatten, dispatch driver).                          *)
(*                                                                         *)
(* Bytes are modelled as integers: the three JSON delimiters keep their    *)
(* ASCII codes, and every byte of the encoding of event e is the id of e   *)
(* (ids are small positive integers, distinct from the delimiters), so     *)
(* the events of a container can be read back from its bytes.              *)
(*                                                                         *)
(* Spec is the whole pipeline of run_inner. SpecBuild is one call of       *)
(* build_request on any batch of at most MaxBatch events, one loop         *)
(* iteration per step.                                                     *)
(***************************************************************************)
EXTENDS Integers, Sequences, FiniteSets, TLC

\* ------------------------------------------------------------------ bounds
\* The payload cap of the model (MAX_PAYLOAD_BYTES is 5,000,000 in the sink's
\* config module; the model runs the same code against a small cap).
Cap == 6
\* Longest batch handed to one build_request call in SpecBuild.
MaxBatch == 3
\* Events the upstream source produces in Spec.
MaxEvents == 2
\* Batcher: most events in one batch (batch_settings).
BatchMaxEvents == 2
\* default_request_builder_concurrency_limit().
ConcurrencyLimit == 1

\* ------------------------------------------------------------ byte values
LBRACKET == 91
COMMA == 44
RBRACKET == 93

\* ------------------------------------------------------------------ state
VARIABLES
    MAX_PAYLOAD_BYTES,  \* the cap the serializer compares against
    tasks,              \* build_request invocations (one record per batch)
    resolved,           \* event id -> number of times its finalizer resolved
    events_dropped,     \* ComponentEventsDropped signals emitted (count)
    upstream,           \* "open" or "ended": the input event stream
    admitted,           \* number of events pulled from the input stream
    open,               \* batcher: partition key -> events of the open batch
    ready,              \* closed batches not yet taken by concurrent_map
    outbound,           \* Wire Requests after filter_map/flatten, not yet dispatched
    in_service,         \* Wire Requests the dispatch driver holds
    handed,             \* every Wire Request handed to the driver, in order
    build_errors,       \* SinkRequestBuildError signals emitted (count)
    done                \* run_inner has returned

pipe_vars == <<upstream, admitted, open, ready, outbound, in_service, handed,
               build_errors, done>>
vars == <<MAX_PAYLOAD_BYTES, tasks, resolved, events_dropped, pipe_vars>>

\* ---------------------------------------------------------------- helpers
RECURSIVE Flatten(_)
Flatten(ss) == IF ss = <<>> THEN <<>> ELSE Head(ss) \o Flatten(Tail(ss))

Ids(s) == [i \in 1..Len(s) |-> s[i].id]
Events(q) == [i \in 1..Len(q) |-> q[i].event]

\* serde_json::to_writer(&mut buf, event.as_log()): the bytes of one event.
to_writer(event) == [i \in 1..event.len |-> event.id]

\* Vec<Event>::take_finalizers: the finalizers are moved out of the events.
FinalizersOf(events) == UNION {events[i].fin : i \in 1..Len(events)}
\* (mutant: the finalizers are cloned, the events keep theirs)
take_finalizers_clone(events) == events
take_finalizers(events) == [i \in 1..Len(events) |-> [events[i] EXCEPT !.fin = {}]]

\* Dropping a value that still holds finalizers resolves each of them.
DropFinalizers(res, fins) == [e \in DOMAIN res |-> IF e \in fins THEN res[e] + 1 ELSE res[e]]

\* GroupedCountByteSize: count and byte total of the events added.
EmptyByteSize == [count |-> 0, bytes |-> 0]
\* (mutant: the size recorded is the length of the bytes just written)
add_event_len(byte_size, event, json_size) ==
    [count |-> byte_size.count + 1, bytes |-> byte_size.bytes + event.len]
add_event(byte_size, event, json_size) ==
    [count |-> byte_size.count + 1, bytes |-> byte_size.bytes + json_size]

\* The events whose bytes a container holds, in order of first appearance.
RECURSIVE EventsOf(_)
EventsOf(buf) ==
    IF buf = <<>> THEN <<>>
    ELSE LET rest == EventsOf(SubSeq(buf, 1, Len(buf) - 1))
             b == buf[Len(buf)]
         IN IF b \in {LBRACKET, COMMA, RBRACKET} \/ (\E i \in 1..Len(rest) : rest[i] = b)
            THEN rest ELSE Append(rest, b)

\* impl From<serde_json::Error> for io::Error (the `?` inside
\* serialize_with_capacity, whose error type is io::Error).
JsonToIo(kind) == IF kind = "serde_json" THEN "io" ELSE kind

\* impl From<io::Error> / From<serde_json::Error> for RequestBuildError.
RequestBuildErrorFrom(kind) == IF kind = "io" THEN "Io" ELSE "Json"

\* ------------------------------------------------- serialize_with_capacity
\* VecDeque::push_front, VecDeque::pop_front (the queue after it), Vec::truncate.
\* (mutant: push_back in place of push_front)
push_back(events, item) == Append(events, item)
push_front(events, item) == <<item>> \o events
pop_front(events) == Tail(events)
\* (mutant: the rollback forgets to truncate)
truncate_forgotten(buf, len) == buf
\* (mutant: the rollback truncates one byte short)
truncate_one_short(buf, len) == SubSeq(buf, 1, len + 1)
truncate(buf, len) == SubSeq(buf, 1, len)

\* (mutant: `>` in place of `>=`)
over_capacity_gt(buf) == Len(buf) > MAX_PAYLOAD_BYTES
\* Line 357: `buf.len() >= MAX_PAYLOAD_BYTES`.
over_capacity(buf) == Len(buf) >= MAX_PAYLOAD_BYTES

\* (mutant: first fit; an event that does not fit is skipped and the pass
\* goes on with the events behind it)
RECURSIVE SerializeLoopSkip(_, _, _, _, _)
SerializeLoopSkip(events, buf, first, byte_size, events_serialized) ==
    IF events = <<>>
    THEN [ok |-> TRUE, err |-> "none", cause |-> "none", events |-> events, buf |-> buf,
          byte_size |-> byte_size, events_serialized |-> events_serialized,
          written |-> <<>>]
    ELSE LET event == Head(events).event
             rest == Tail(events)
             buf1 == IF first THEN buf ELSE Append(buf, COMMA)
             buf2 == buf1 \o to_writer(event)
         IN IF event.bad
            THEN [ok |-> FALSE, err |-> "io", cause |-> "serde_json",
                  events |-> rest, buf |-> buf1,
                  byte_size |-> byte_size, events_serialized |-> events_serialized,
                  written |-> <<event.id>>]
            ELSE IF Len(buf2) >= MAX_PAYLOAD_BYTES
            THEN LET r == SerializeLoopSkip(rest, buf, first, byte_size, events_serialized)
                 IN [r EXCEPT !.events = <<Head(events)>> \o @,
                              !.written = <<event.id>> \o @]
            ELSE LET r == SerializeLoopSkip(rest, buf2, FALSE,
                                   [count |-> byte_size.count + 1,
                                    bytes |-> byte_size.bytes + Head(events).estimated_json_size],
                                   Append(events_serialized, event))
                 IN [r EXCEPT !.written = <<event.id>> \o @]

\* The `while let Some(..) = events.pop_front()` loop. `written` lists the
\* events handed to to_writer by the pass, in order.
RECURSIVE SerializeLoop(_, _, _, _, _)
SerializeLoop(events, buf, first, byte_size, events_serialized) ==
    IF events = <<>>
    THEN [ok |-> TRUE, err |-> "none", cause |-> "none", events |-> events, buf |-> buf,
          byte_size |-> byte_size, events_serialized |-> events_serialized,
          written |-> <<>>]
    ELSE LET event == Head(events).event
             estimated_json_size == Head(events).estimated_json_size
             rest == pop_front(events)
             existing_len == Len(buf)
             buf1 == IF first THEN buf ELSE Append(buf, COMMA)
             buf2 == buf1 \o to_writer(event)
         IN IF event.bad
            THEN [ok |-> FALSE, err |-> JsonToIo("serde_json"), cause |-> "serde_json",
                  events |-> rest, buf |-> buf1,
                  byte_size |-> byte_size, events_serialized |-> events_serialized,
                  written |-> <<event.id>>]
            ELSE IF over_capacity(buf2)
            THEN [ok |-> TRUE, err |-> "none", cause |-> "none",
                  events |-> push_front(rest, Head(events)),
                  buf |-> truncate(buf2, existing_len),
                  byte_size |-> byte_size, events_serialized |-> events_serialized,
                  written |-> <<event.id>>]
            ELSE LET r == SerializeLoop(rest, buf2, FALSE,
                                        add_event(byte_size, event, estimated_json_size),
                                        Append(events_serialized, event))
                 IN [r EXCEPT !.written = <<event.id>> \o @]

\* (mutant: the JSON array is returned without its closing bracket)
serialize_unclosed(events) ==
    SerializeLoop(events, <<LBRACKET>>, TRUE, EmptyByteSize, <<>>)
serialize_with_capacity(events) ==
    LET r == SerializeLoop(events, <<LBRACKET>>, TRUE, EmptyByteSize, <<>>)
    IN IF r.ok THEN [r EXCEPT !.buf = Append(r.buf, RBRACKET)] ELSE r

\* ---------------------------------------------------------- finish_request
NoRequest == [api_key |-> "none", finalizers |-> {}, event_count |-> 0,
              byte_size |-> EmptyByteSize, uncompressed_size |-> 0, body |-> <<>>]

\* write_all(&mut compressor, n_events, &buf) fails iff codec_fails.
finish_request(buf, events, byte_size, api_key, codec_fails) ==
    IF codec_fails
    THEN [ok |-> FALSE, err |-> "io", cause |-> "codec", events |-> events,
          request |-> NoRequest]
    ELSE [ok |-> TRUE, err |-> "none", cause |-> "none", events |-> take_finalizers(events),
          request |-> [api_key |-> api_key,
                       finalizers |-> FinalizersOf(events),
                       event_count |-> Len(take_finalizers(events)),
                       byte_size |-> byte_size,
                       uncompressed_size |-> Len(buf),
                       body |-> buf]]

\* ----------------------------------------------------------- build_request
NoPass == [ok |-> TRUE, err |-> "none", cause |-> "none", events |-> <<>>, buf |-> <<>>,
           byte_size |-> EmptyByteSize, events_serialized |-> <<>>, written |-> <<>>,
           entry |-> <<>>]

\* What one pass returned, with the queue it was given.
PassRecord(s, entry) ==
    [ok |-> s.ok, err |-> s.err, cause |-> s.cause, events |-> s.events, buf |-> s.buf,
     byte_size |-> s.byte_size, events_serialized |-> s.events_serialized,
     written |-> s.written, entry |-> entry]

\* Lines 257-271: every event is paired with its estimated size; no request
\* yet. An empty batch never enters the loop: Ok(requests) at once.
NewTask(bid, api_key, events) ==
    [bid |-> bid, api_key |-> api_key, batch |-> Ids(events), input |-> events,
     queue |-> [i \in 1..Len(events) |->
                   [event |-> events[i], estimated_json_size |-> events[i].est]],
     requests |-> <<>>,
     pc |-> IF events = <<>> THEN "returned" ELSE "loop",
     result |-> IF events = <<>> THEN "Ok" ELSE "pending",
     pass |-> NoPass, passes |-> 0, dropped |-> <<>>, cause |-> "none",
     written |-> <<>>]

RequestFinalizers(requests) == UNION {requests[i].finalizers : i \in 1..Len(requests)}

\* (mutant: on an error the call returns the requests built so far)
BuildAbortPartial(t, r, err, cause, lost) ==
    /\ tasks' = [tasks EXCEPT ![t.bid] =
                    [t EXCEPT !.queue = <<>>, !.pc = "returned", !.result = "Ok",
                              !.cause = cause, !.pass = r, !.passes = @ + 1]]
    /\ resolved' = DropFinalizers(resolved, lost)
    /\ UNCHANGED events_dropped
\* `?` leaves build_request: the queue, the events of the pass and the
\* requests built so far are dropped, with the finalizers they hold.
BuildAbort(t, r, err, cause, lost) ==
    /\ tasks' = [tasks EXCEPT ![t.bid] =
                    [t EXCEPT !.queue = <<>>, !.requests = <<>>, !.pc = "returned",
                              !.result = RequestBuildErrorFrom(err), !.cause = cause,
                              !.pass = r, !.passes = @ + 1]]
    /\ resolved' = DropFinalizers(resolved, lost \cup RequestFinalizers(t.requests))
    /\ UNCHANGED events_dropped

\* (mutant: the loop stops one event early)
LoopTestOffByOne(t) ==
    IF Len(t.queue) <= 1 THEN [t EXCEPT !.pc = "returned", !.result = "Ok"] ELSE t
\* The loop test after an iteration: on an empty queue, Ok(requests).
LoopTest(t) ==
    IF t.queue = <<>> THEN [t EXCEPT !.pc = "returned", !.result = "Ok"] ELSE t

\* (mutant: the head event is counted as dropped but stays in the queue)
DropWithoutPop(t, r) ==
    LET too_big == Head(r.events).event
    IN /\ tasks' = [tasks EXCEPT ![t.bid] =
                       [t EXCEPT !.queue = r.events, !.pass = r, !.passes = @ + 1,
                                 !.dropped = Append(@, too_big.id)]]
       /\ events_dropped' = events_dropped + 1
       /\ UNCHANGED resolved
\* (mutant: a pass in which nothing fit is finished into a request all the
\* same, and the head event is then dropped)
DropAfterEmptyRequest(t, r) ==
    LET too_big == Head(r.events).event
        f == finish_request(r.buf, r.events_serialized, r.byte_size, t.api_key, FALSE)
    IN /\ tasks' = [tasks EXCEPT ![t.bid] =
                       LoopTest([t EXCEPT !.queue = pop_front(r.events), !.pass = r,
                                          !.passes = @ + 1,
                                          !.requests = Append(@, f.request),
                                          !.dropped = Append(@, too_big.id)])]
       /\ events_dropped' = events_dropped + 1
       /\ resolved' = DropFinalizers(resolved, too_big.fin)
\* (mutant: a pass without progress fails the call with PayloadTooBig)
DropAsPayloadTooBig(t, r) ==
    /\ tasks' = [tasks EXCEPT ![t.bid] =
                    [t EXCEPT !.queue = <<>>, !.requests = <<>>, !.pc = "returned",
                              !.result = "PayloadTooBig", !.pass = r, !.passes = @ + 1]]
    /\ resolved' = DropFinalizers(resolved, FinalizersOf(Events(t.queue))
                                                \cup RequestFinalizers(t.requests))
    /\ UNCHANGED events_dropped
\* Lines 275-281: nothing fit, the head event is popped, dropped and counted.
DropTooBig(t, r) ==
    LET too_big == Head(r.events).event
    IN /\ tasks' = [tasks EXCEPT ![t.bid] =
                       LoopTest([t EXCEPT !.queue = pop_front(r.events), !.pass = r,
                                          !.passes = @ + 1,
                                          !.dropped = Append(@, too_big.id)])]
       /\ events_dropped' = events_dropped + 1
       /\ resolved' = DropFinalizers(resolved, too_big.fin)

\* One iteration of the `while !events_with_estimated_size.is_empty()` loop.
BuildPass(b, codec_fails) ==
    /\ b \in DOMAIN tasks
    /\ tasks[b].pc = "loop"
    /\ tasks[b].queue # <<>>
    /\ LET s == serialize_with_capacity(tasks[b].queue)
           t == [tasks[b] EXCEPT !.written = @ \o s.written]
           r == PassRecord(s, t.queue)
       IN IF ~r.ok
          THEN BuildAbort(t, r, r.err, r.cause, FinalizersOf(Events(t.queue)))
          ELSE IF r.events_serialized = <<>>
          THEN DropTooBig(t, r)
          ELSE LET f == finish_request(r.buf, r.events_serialized, r.byte_size,
                                       t.api_key, codec_fails)
               IN IF ~f.ok
                  THEN BuildAbort(t, r, f.err, f.cause,
                                  FinalizersOf(f.events) \cup FinalizersOf(Events(r.events)))
                  ELSE /\ tasks' = [tasks EXCEPT ![b] =
                                       LoopTest([t EXCEPT !.queue = r.events, !.pass = r,
                                                          !.passes = @ + 1,
                                                          !.requests = Append(@, f.request)])]
                       /\ resolved' = DropFinalizers(resolved, FinalizersOf(f.events))
                       /\ UNCHANGED events_dropped
    /\ UNCHANGED <<MAX_PAYLOAD_BYTES, pipe_vars>>

\* ------------------------------------------------------- LogSink::run_inner
\* Option<Arc<str>>: "none" is None, the others are Some(key).
PartitionKeys == {"none", "A"}
default_api_key == "default"

\* (mutant: every event is filed under the same key)
partition_one(item) == "A"
\* EventPartitioner::partition
partition(item) == item.key

\* The events the upstream source produces in Spec.
PipeShapes ==
    [len : {1, Cap - 3, Cap - 1}, slack : {0}, bad : {FALSE}]
        \cup [len : {1}, slack : {0}, bad : {TRUE}]

\* Smaller set of events, for the specifications with more events in flight.
ParShapes == [len : {1, Cap - 3}, slack : {0}, bad : {FALSE}]

\* input.next(): the batcher admits one event into the open batch of its key.
\* The stream has at most max_events events; a batch has at most
\* batch_max_events.
AdmitItem(key, shape, max_events, batch_max_events) ==
    /\ upstream = "open"
    /\ admitted < max_events
    /\ LET item == [id |-> admitted + 1, key |-> key, len |-> shape.len,
                    est |-> shape.len + shape.slack, bad |-> shape.bad,
                    fin |-> {admitted + 1}]
           k == partition(item)
       IN /\ Len(open[k]) < batch_max_events
          /\ open' = [open EXCEPT ![k] = Append(@, item)]
    /\ admitted' = admitted + 1
    /\ UNCHANGED <<MAX_PAYLOAD_BYTES, tasks, resolved, events_dropped, upstream, ready,
                   outbound, in_service, handed, build_errors, done>>

Admit(key, shape) == AdmitItem(key, shape, MaxEvents, BatchMaxEvents)

\* The input stream ends.
UpstreamEnd ==
    /\ upstream = "open"
    /\ upstream' = "ended"
    /\ UNCHANGED <<MAX_PAYLOAD_BYTES, tasks, resolved, events_dropped, admitted, open,
                   ready, outbound, in_service, handed, build_errors, done>>

\* batched_partitioned: the open batch of a key closes (full, timed out, or
\* the input ended) and is emitted with its key.
CloseBatch(k) ==
    /\ open[k] # <<>>
    /\ ready' = Append(ready, [key |-> k, events |-> open[k]])
    /\ open' = [open EXCEPT ![k] = <<>>]
    /\ UNCHANGED <<MAX_PAYLOAD_BYTES, tasks, resolved, events_dropped, upstream, admitted,
                   outbound, in_service, handed, build_errors, done>>

\* Slots of concurrent_map in use: invocations spawned and not yet yielded.
InFlight == {b \in DOMAIN tasks : tasks[b].pc \in {"loop", "returned"}}
Building == {b \in DOMAIN tasks : tasks[b].pc = "loop"}

\* (mutant: a batch without a key is built without one)
unwrap_or_none(key) == key
\* Line 399: api_key.unwrap_or_else(|| Arc::clone(&builder.default_api_key)).
unwrap_or_default(key) == IF key = "none" THEN default_api_key ELSE key

\* Lines 397-402: the closure of concurrent_map is spawned on one batch.
Spawn(input) ==
    /\ tasks' = Append(tasks, NewTask(Len(tasks) + 1, unwrap_or_default(input.key),
                                      input.events))
    /\ ready' = Tail(ready)
    /\ UNCHANGED <<MAX_PAYLOAD_BYTES, resolved, events_dropped, upstream, admitted, open,
                   outbound, in_service, handed, build_errors, done>>

\* (mutant: no limit on the invocations in flight)
StartBuildUnbounded == ready # <<>> /\ Spawn(Head(ready))
\* concurrent_map takes the next batch when a slot is free.
StartBuildWithin(limit) ==
    /\ ready # <<>>
    /\ Cardinality(InFlight) < limit
    /\ Spawn(Head(ready))

StartBuild == StartBuildWithin(ConcurrencyLimit)

\* (mutant: a build error is filtered out without its signal)
YieldSilent(b) ==
    /\ b \in DOMAIN tasks
    /\ tasks[b].pc = "returned"
    /\ tasks' = [tasks EXCEPT ![b] = [@ EXCEPT !.pc = "yielded"]]
    /\ outbound' = outbound \o tasks[b].requests
    /\ UNCHANGED <<MAX_PAYLOAD_BYTES, resolved, events_dropped, upstream, admitted, open,
                   ready, in_service, handed, build_errors, done>>
\* (mutant: the requests of one invocation enter the stream last first)
YieldReversed(b) ==
    /\ b \in DOMAIN tasks
    /\ tasks[b].pc = "returned"
    /\ tasks' = [tasks EXCEPT ![b] = [@ EXCEPT !.pc = "yielded"]]
    /\ IF tasks[b].result = "Ok"
       THEN /\ outbound' = outbound \o [i \in 1..Len(tasks[b].requests) |->
                                           tasks[b].requests[Len(tasks[b].requests) + 1 - i]]
            /\ UNCHANGED build_errors
       ELSE /\ build_errors' = build_errors + 1
            /\ UNCHANGED outbound
    /\ UNCHANGED <<MAX_PAYLOAD_BYTES, resolved, events_dropped, upstream, admitted, open,
                   ready, in_service, handed, done>>
\* filter_map + flatten on the result of one invocation (lines 404-413).
Yield(b) ==
    /\ b \in DOMAIN tasks
    /\ tasks[b].pc = "returned"
    /\ tasks' = [tasks EXCEPT ![b] = [@ EXCEPT !.pc = "yielded"]]
    /\ IF tasks[b].result = "Ok"
       THEN /\ outbound' = outbound \o tasks[b].requests
            /\ UNCHANGED build_errors
       ELSE /\ build_errors' = build_errors + 1
            /\ UNCHANGED outbound
    /\ UNCHANGED <<MAX_PAYLOAD_BYTES, resolved, events_dropped, upstream, admitted, open,
                   ready, in_service, handed, done>>

\* The dispatch driver takes the next Wire Request of the stream.
DriverAccept ==
    /\ outbound # <<>>
    /\ in_service' = in_service \cup {Head(outbound)}
    /\ handed' = Append(handed, Head(outbound))
    /\ outbound' = Tail(outbound)
    /\ UNCHANGED <<MAX_PAYLOAD_BYTES, tasks, resolved, events_dropped, upstream, admitted,
                   open, ready, build_errors, done>>

\* The service call of a request ends (delivered or failed): the driver
\* resolves the finalizers of the request.
DriverRespond(request) ==
    /\ request \in in_service
    /\ in_service' = in_service \ {request}
    /\ resolved' = DropFinalizers(resolved, request.finalizers)
    /\ UNCHANGED <<MAX_PAYLOAD_BYTES, tasks, events_dropped, upstream, admitted, open,
                   ready, outbound, handed, build_errors, done>>

\* (mutant: run() returns as soon as the input has ended)
FinishEarly ==
    /\ ~done
    /\ upstream = "ended"
    /\ done' = TRUE
    /\ UNCHANGED <<MAX_PAYLOAD_BYTES, tasks, resolved, events_dropped, upstream, admitted,
                   open, ready, outbound, in_service, handed, build_errors>>
\* Every stage is exhausted: run() returns.
Finish ==
    /\ ~done
    /\ upstream = "ended"
    /\ \A k \in DOMAIN open : open[k] = <<>>
    /\ ready = <<>>
    /\ InFlight = {}
    /\ outbound = <<>>
    /\ in_service = {}
    /\ done' = TRUE
    /\ UNCHANGED <<MAX_PAYLOAD_BYTES, tasks, resolved, events_dropped, upstream, admitted,
                   open, ready, outbound, in_service, handed, build_errors>>

Init ==
    /\ MAX_PAYLOAD_BYTES = Cap
    /\ tasks = <<>>
    /\ resolved = [e \in 1..MaxEvents |-> 0]
    /\ events_dropped = 0
    /\ upstream = "open"
    /\ admitted = 0
    /\ open = [k \in PartitionKeys |-> <<>>]
    /\ ready = <<>>
    /\ outbound = <<>>
    /\ in_service = {}
    /\ handed = <<>>
    /\ build_errors = 0
    /\ done = FALSE

Next ==
    \/ \E key \in PartitionKeys, shape \in PipeShapes : Admit(key, shape)
    \/ UpstreamEnd
    \/ \E k \in PartitionKeys : CloseBatch(k)
    \/ StartBuild
    \/ \E b \in DOMAIN tasks, codec_fails \in BOOLEAN : BuildPass(b, codec_fails)
    \/ \E b \in DOMAIN tasks : Yield(b)
    \/ DriverAccept
    \/ \E request \in in_service : DriverRespond(request)
    \/ Finish

Spec == Init /\ [][Next]_vars

\* The stages behind the input, the running builders apart: run() polls
\* them until all are exhausted.
Drain ==
    \/ \E k \in PartitionKeys : CloseBatch(k)
    \/ StartBuild
    \/ \E b \in DOMAIN tasks : Yield(b)
    \/ DriverAccept
    \/ \E request \in in_service : DriverRespond(request)
    \/ Finish

\* ----------------------------------------------------------------- SpecPar
\* The same pipeline with one more event and one more builder slot, on the
\* smaller set of events, all of one partition key: invocations of
\* build_request run concurrently.
ParKeys == {"A"}

InitPar ==
    /\ MAX_PAYLOAD_BYTES = Cap
    /\ tasks = <<>>
    /\ resolved = [e \in 1..(MaxEvents + 1) |-> 0]
    /\ events_dropped = 0
    /\ upstream = "open"
    /\ admitted = 0
    /\ open = [k \in ParKeys |-> <<>>]
    /\ ready = <<>>
    /\ outbound = <<>>
    /\ in_service = {}
    /\ handed = <<>>
    /\ build_errors = 0
    /\ done = FALSE

NextPar ==
    \/ \E key \in ParKeys, shape \in ParShapes :
           AdmitItem(key, shape, MaxEvents + 1, BatchMaxEvents)
    \/ UpstreamEnd
    \/ \E k \in ParKeys : CloseBatch(k)
    \/ StartBuildWithin(ConcurrencyLimit + 1)
    \/ \E b \in DOMAIN tasks, codec_fails \in BOOLEAN : BuildPass(b, codec_fails)
    \/ \E b \in DOMAIN tasks : Yield(b)
    \/ DriverAccept
    \/ \E request \in in_service : DriverRespond(request)
    \/ Finish

SpecPar == InitPar /\ [][NextPar]_vars

\* ---------------------------------------------------------------- SpecKeys
\* The pipeline behind a batcher of at most one event per batch, fed events
\* with the partition keys A and B.
ScenarioKeys == {"A", "B"}

InitKeys ==
    /\ MAX_PAYLOAD_BYTES = Cap
    /\ tasks = <<>>
    /\ resolved = [e \in 1..MaxEvents |-> 0]
    /\ events_dropped = 0
    /\ upstream = "open"
    /\ admitted = 0
    /\ open = [k \in ScenarioKeys |-> <<>>]
    /\ ready = <<>>
    /\ outbound = <<>>
    /\ in_service = {}
    /\ handed = <<>>
    /\ build_errors = 0
    /\ done = FALSE

NextKeys ==
    \/ \E key \in ScenarioKeys, shape \in ParShapes : AdmitItem(key, shape, MaxEvents, 1)
    \/ UpstreamEnd
    \/ \E k \in ScenarioKeys : CloseBatch(k)
    \/ StartBuild
    \/ \E b \in DOMAIN tasks, codec_fails \in BOOLEAN : BuildPass(b, codec_fails)
    \/ \E b \in DOMAIN tasks : Yield(b)
    \/ DriverAccept
    \/ \E request \in in_service : DriverRespond(request)
    \/ Finish

SpecKeys == InitKeys /\ [][NextKeys]_vars

\* ------------------------------------ one build_request call on any batch
\* An event either encodes to `len` bytes or fails to serialize (`bad`); its
\* estimated size is `len + slack`.
EventShapes ==
    [len : 1..Cap, slack : {0, 1}, bad : {FALSE}]
        \cup [len : {1}, slack : {0}, bad : {TRUE}]

\* The caller's batch grows by one event (the Vec<Event> handed to the call).
Arrange(shape) ==
    /\ tasks = <<>>
    /\ ready # <<>>
    /\ Len(Head(ready).events) < MaxBatch
    /\ LET id == Len(Head(ready).events) + 1
           item == [id |-> id, key |-> Head(ready).key, len |-> shape.len,
                    est |-> shape.len + shape.slack, bad |-> shape.bad, fin |-> {id}]
       IN ready' = <<[Head(ready) EXCEPT !.events = Append(@, item)]>>
    /\ UNCHANGED <<MAX_PAYLOAD_BYTES, tasks, resolved, events_dropped, upstream, admitted,
                   open, outbound, in_service, handed, build_errors, done>>

InitBuild ==
    /\ MAX_PAYLOAD_BYTES = Cap
    /\ tasks = <<>>
    /\ resolved = [e \in 1..MaxBatch |-> 0]
    /\ events_dropped = 0
    /\ upstream = "ended"
    /\ admitted = 0
    /\ open = [k \in PartitionKeys |-> <<>>]
    /\ ready = <<[key |-> "none", events |-> <<>>]>>
    /\ outbound = <<>>
    /\ in_service = {}
    /\ handed = <<>>
    /\ build_errors = 0
    /\ done = FALSE

NextBuild ==
    \/ \E shape \in EventShapes : Arrange(shape)
    \/ StartBuild
    \/ \E codec_fails \in BOOLEAN : BuildPass(1, codec_fails)

SpecBuild == InitBuild /\ [][NextBuild]_vars

\* ----------------------------------------------------------------- SpecSer
\* build_request on batches of events of every encoded length, each with an
\* estimate equal to its length.
SerShapes ==
    [len : 1..Cap, slack : {0}, bad : {FALSE}]
        \cup [len : {1}, slack : {0}, bad : {TRUE}]

NextSer ==
    \/ \E shape \in SerShapes : Arrange(shape)
    \/ StartBuild
    \/ \E codec_fails \in BOOLEAN : BuildPass(1, codec_fails)

SpecSer == InitBuild /\ [][NextSer]_vars

\* ----------------------------------------------------------- SpecScenario
\* build_request with a payload cap of 100 bytes, on batches of events whose
\* encodings are 10, 40 or 150 bytes long.
ScenarioShapes == [len : {10, 40, 150}, slack : {0}, bad : {FALSE}]

InitScenario ==
    /\ MAX_PAYLOAD_BYTES = 100
    /\ tasks = <<>>
    /\ resolved = [e \in 1..MaxBatch |-> 0]
    /\ events_dropped = 0
    /\ upstream = "ended"
    /\ admitted = 0
    /\ open = [k \in PartitionKeys |-> <<>>]
    /\ ready = <<[key |-> "none", events |-> <<>>]>>
    /\ outbound = <<>>
    /\ in_service = {}
    /\ handed = <<>>
    /\ build_errors = 0
    /\ done = FALSE

NextScenario ==
    \/ \E shape \in ScenarioShapes : Arrange(shape)
    \/ StartBuild
    \/ \E codec_fails \in BOOLEAN : BuildPass(1, codec_fails)

SpecScenario == InitScenario /\ [][NextScenario]_vars

\* ================================================================== claims
Range(s) == {s[i] : i \in 1..Len(s)}

\* The events a Wire Request holds: those whose bytes are in its body.
RequestEvents(request) == EventsOf(request.body)

RECURSIVE CountEvents(_)
CountEvents(requests) ==
    IF requests = <<>> THEN 0
    ELSE Len(RequestEvents(Head(requests))) + CountEvents(Tail(requests))

ConcatEvents(requests) == Flatten([i \in 1..Len(requests) |-> RequestEvents(requests[i])])

Failed(t) == t.result \notin {"pending", "Ok"}

\* C1. Conservation: when build_request returns Ok, the events of the returned
\* Wire Requests plus the events dropped as too large are as many as the
\* events of the batch.
Conservation ==
    \A b \in DOMAIN tasks :
        tasks[b].result = "Ok" =>
            CountEvents(tasks[b].requests) + Len(tasks[b].dropped) = Len(tasks[b].batch)

\* A call that returned Ok with two requests and a dropped event.
ConservationWitness ==
    \E b \in DOMAIN tasks :
        /\ tasks[b].result = "Ok"
        /\ Len(tasks[b].requests) >= 2
        /\ tasks[b].dropped # <<>>

\* C2 as stated: every container serialize_with_capacity emits, brackets
\* included, is strictly shorter than MAX_PAYLOAD_BYTES.
CapStrict ==
    \A b \in DOMAIN tasks :
        /\ (tasks[b].passes > 0 /\ tasks[b].pass.ok) =>
               Len(tasks[b].pass.buf) < MAX_PAYLOAD_BYTES
        /\ \A i \in 1..Len(tasks[b].requests) :
               Len(tasks[b].requests[i].body) < MAX_PAYLOAD_BYTES

\* C2 amended: every container serialize_with_capacity emits, brackets
\* included, is at most MAX_PAYLOAD_BYTES bytes long (the closing bracket is
\* pushed after the size check).
CapRespected ==
    \A b \in DOMAIN tasks :
        /\ (tasks[b].passes > 0 /\ tasks[b].pass.ok) =>
               Len(tasks[b].pass.buf) <= MAX_PAYLOAD_BYTES
        /\ \A i \in 1..Len(tasks[b].requests) :
               /\ Len(tasks[b].requests[i].body) <= MAX_PAYLOAD_BYTES
               /\ tasks[b].requests[i].uncompressed_size = Len(tasks[b].requests[i].body)

\* A Wire Request whose container is exactly MAX_PAYLOAD_BYTES bytes long.
CapRespectedWitness ==
    \E b \in DOMAIN tasks : \E i \in 1..Len(tasks[b].requests) :
        Len(tasks[b].requests[i].body) = MAX_PAYLOAD_BYTES

\* C5. Order preservation: when no event of the batch is dropped, the events
\* of the returned Wire Requests, concatenated in the order the requests were
\* built, are the events of the batch in their admission order.
OrderPreserved ==
    \A b \in DOMAIN tasks :
        (tasks[b].result = "Ok" /\ tasks[b].dropped = <<>>) =>
            ConcatEvents(tasks[b].requests) = tasks[b].batch

\* A call without drops that returned two requests, one of them of two events.
OrderPreservedWitness ==
    \E b \in DOMAIN tasks :
        /\ tasks[b].result = "Ok"
        /\ tasks[b].dropped = <<>>
        /\ Len(tasks[b].requests) >= 2
        /\ \E i \in 1..Len(tasks[b].requests) : tasks[b].requests[i].event_count >= 2

\* The event at the head of the queue of a running call makes, alone, a
\* container longer than the cap.
HeadTooLarge(t) ==
    /\ t.pc = "loop"
    /\ t.queue # <<>>
    /\ ~Head(t.queue).event.bad
    /\ 2 + Head(t.queue).event.len > MAX_PAYLOAD_BYTES

\* C6. No-progress case: an iteration of build_request on a queue whose head
\* alone exceeds the cap drops exactly that event, emits exactly one "too
\* large" signal, raises no error, and goes on with the rest of the queue and
\* the requests built so far untouched.
NoProgressCase ==
    [][\A b \in DOMAIN tasks :
          (HeadTooLarge(tasks[b]) /\ tasks'[b] # tasks[b]) =>
              /\ tasks'[b].queue = Tail(tasks[b].queue)
              /\ tasks'[b].requests = tasks[b].requests
              /\ tasks'[b].dropped = Append(tasks[b].dropped, Head(tasks[b].queue).event.id)
              /\ events_dropped' = events_dropped + 1
              /\ ~Failed(tasks'[b])
              /\ tasks'[b].pc = IF Tail(tasks[b].queue) = <<>> THEN "returned" ELSE "loop"
      ]_vars

\* The first event of a batch was dropped and the rest went into a request.
NoProgressCaseWitness ==
    \E b \in DOMAIN tasks :
        /\ tasks[b].result = "Ok"
        /\ Len(tasks[b].batch) >= 2
        /\ tasks[b].dropped = <<tasks[b].batch[1]>>
        /\ events_dropped = 1
        /\ tasks[b].requests # <<>>

\* C7. The serializer never drops data: after a successful pass the
\* serialized events followed by the events left in the queue are the queue at
\* entry, in order, and the head of what is left is the event that did not fit.
SerializerKeepsAll ==
    \A b \in DOMAIN tasks :
        (tasks[b].passes > 0 /\ tasks[b].pass.ok) =>
            LET pass == tasks[b].pass
                k == Len(pass.events_serialized)
            IN /\ k <= Len(pass.entry)
               /\ pass.events_serialized = Events(SubSeq(pass.entry, 1, k))
               /\ pass.events = SubSeq(pass.entry, k + 1, Len(pass.entry))
               /\ pass.events # <<>> =>
                      (Len(pass.buf) - 1) + (IF k = 0 THEN 0 ELSE 1)
                          + Head(pass.events).event.len >= MAX_PAYLOAD_BYTES

\* A pass that serialized an event and left two, the first of which did not fit.
SerializerKeepsAllWitness ==
    \E b \in DOMAIN tasks :
        /\ tasks[b].passes > 0
        /\ tasks[b].pass.ok
        /\ tasks[b].pass.events_serialized # <<>>
        /\ Len(tasks[b].pass.events) >= 2

\* ---------------------------------------------------- claims on the pipeline
\* Wire Requests somewhere between build_request and the driver's response.
LiveTasks == {b \in DOMAIN tasks : tasks[b].pc \in {"loop", "returned"}}

\* How many owners hold the finalizer of event e: requests of running calls,
\* requests in the outbound stream or at the driver, and events still queued
\* in a call, in a closed batch or in an open batch.
Holders(e) ==
    LET InSeq(requests) == Cardinality({i \in 1..Len(requests) : e \in requests[i].finalizers})
        InEvents(events) == Cardinality({i \in 1..Len(events) : e \in events[i].fin})
        InTask(b) == InSeq(tasks[b].requests) + InEvents(Events(tasks[b].queue))
        RECURSIVE SumTasks(_)
        SumTasks(B) == IF B = {} THEN 0
                       ELSE LET b == CHOOSE x \in B : TRUE IN InTask(b) + SumTasks(B \ {b})
        RECURSIVE SumReady(_)
        SumReady(i) == IF i = 0 THEN 0 ELSE InEvents(ready[i].events) + SumReady(i - 1)
        RECURSIVE SumOpen(_)
        SumOpen(K) == IF K = {} THEN 0
                      ELSE LET k == CHOOSE x \in K : TRUE IN InEvents(open[k]) + SumOpen(K \ {k})
    IN SumTasks(LiveTasks) + SumReady(Len(ready)) + SumOpen(DOMAIN open)
           + InSeq(outbound) + Cardinality({r \in in_service : e \in r.finalizers})

AllRequests ==
    UNION {Range(tasks[b].requests) : b \in DOMAIN tasks}
        \cup Range(outbound) \cup in_service \cup Range(handed)

\* C3. Finalizer exactly-once: no finalizer is ever resolved twice, and when
\* the pipeline has completed the finalizer of every admitted event has been
\* resolved exactly once.
FinalizerExactlyOnce ==
    /\ \A e \in DOMAIN resolved : resolved[e] <= 1
    /\ done => \A e \in 1..admitted : resolved[e] = 1

\* The run completed after a drop and a dispatched request.
FinalizerExactlyOnceWitness ==
    /\ done
    /\ admitted = MaxEvents
    /\ events_dropped > 0
    /\ handed # <<>>

\* C4. Finalizer ownership: a Wire Request carries exactly the finalizers of
\* the events in its container, its event count is their number, and no
\* finalizer has two owners.
FinalizerOwnership ==
    /\ \A request \in AllRequests :
           /\ request.finalizers = Range(RequestEvents(request))
           /\ request.event_count = Len(RequestEvents(request))
    /\ \A e \in DOMAIN resolved : Holders(e) <= 1

\* A running call holds a request already built and events still queued.
FinalizerOwnershipWitness ==
    \E b \in DOMAIN tasks :
        /\ tasks[b].pc = "loop"
        /\ tasks[b].requests # <<>>
        /\ tasks[b].queue # <<>>

\* C8 as stated: a JSON failure and a codec failure come out of build_request
\* as two distinct RequestBuildError kinds, and either aborts the call.
DistinctErrorKinds ==
    /\ \A b1, b2 \in DOMAIN tasks :
           (tasks[b1].cause = "serde_json" /\ tasks[b2].cause = "codec") =>
               tasks[b1].result # tasks[b2].result
    /\ \A b \in DOMAIN tasks :
           tasks[b].cause # "none" =>
               Failed(tasks[b]) /\ tasks[b].queue = <<>> /\ tasks[b].requests = <<>>

\* C9. A build failure does not stop the pipeline: no request of a failed
\* batch is in the outbound stream or at the driver, every failure filtered
\* out has emitted one build-failure signal, and when the pipeline has
\* completed every admitted event was in a batch that was built and every
\* request of a batch built without failure was handed to the driver.
BuildFailureIsolated ==
    /\ \A b \in DOMAIN tasks :
           Failed(tasks[b]) =>
               \A request \in Range(outbound) \cup in_service \cup Range(handed) :
                   Range(RequestEvents(request)) \cap Range(tasks[b].batch) = {}
    /\ build_errors = Cardinality({b \in DOMAIN tasks :
                                      tasks[b].pc = "yielded" /\ Failed(tasks[b])})
    /\ done =>
           /\ \A e \in 1..admitted : \E b \in DOMAIN tasks : e \in Range(tasks[b].batch)
           /\ \A b \in DOMAIN tasks :
                  /\ tasks[b].pc = "yielded"
                  /\ tasks[b].result = "Ok" => Range(tasks[b].requests) \subseteq Range(handed)

\* The run completed; a batch failed and a later batch reached the driver.
BuildFailureIsolatedWitness ==
    /\ done
    /\ \E b1, b2 \in DOMAIN tasks :
           /\ b1 < b2
           /\ Failed(tasks[b1])
           /\ tasks[b2].result = "Ok"
           /\ tasks[b2].requests # <<>>
           /\ Range(tasks[b2].requests) \subseteq Range(handed)

\* C10. Bounded builder concurrency: at most ConcurrencyLimit invocations of
\* build_request are in flight.
BoundedBuilders == Cardinality(Building) <= ConcurrencyLimit

\* Every slot is building while another batch waits.
BoundedBuildersWitness ==
    /\ Cardinality(Building) = ConcurrencyLimit
    /\ ready # <<>>

\* ------------------------------------------------ claims on the serializer
RECURSIVE SumOver(_, _)
SumOver(f, n) == IF n = 0 THEN 0 ELSE f[n] + SumOver(f, n - 1)

\* Encoded and estimated bytes of the first k entries of a queue.
EncodedBytes(queue, k) == SumOver([i \in 1..k |-> queue[i].event.len], k)
EstimatedBytes(queue, k) == SumOver([i \in 1..k |-> queue[i].estimated_json_size], k)

SuccessfulPass(t) == t.passes > 0 /\ t.pass.ok

BuildTerminates ==
    /\ [][\A b \in DOMAIN tasks :
             tasks'[b].passes # tasks[b].passes =>
                 /\ tasks'[b].passes = tasks[b].passes + 1
                 /\ Len(tasks'[b].queue) < Len(tasks[b].queue)]_vars
    /\ [](\A b \in DOMAIN tasks :
             /\ tasks[b].passes + Len(tasks[b].queue) <= Len(tasks[b].batch)
             /\ tasks[b].pc = "loop" => tasks[b].queue # <<>>
             /\ tasks[b].pc # "loop" => tasks[b].queue = <<>>)

\* A call returned after as many passes as its batch had events, one of them
\* a drop.
BuildTerminatesWitness ==
    \E b \in DOMAIN tasks :
        /\ tasks[b].result = "Ok"
        /\ Len(tasks[b].batch) >= 2
        /\ tasks[b].passes = Len(tasks[b].batch)
        /\ tasks[b].dropped # <<>>

\* Bytes in the buffer after the first k entries of a queue are written: the
\* opening bracket, the encodings and the commas between them.
BufferAfter(queue, k) == 1 + EncodedBytes(queue, k) + (IF k = 0 THEN 0 ELSE k - 1)

\* C20. Greedy prefix: a pass returns the longest prefix of the queue that
\* keeps the buffer under the cap, and everything from the first event that
\* does not fit stays in the queue, small later events included.
GreedyPrefix ==
    \A b \in DOMAIN tasks :
        SuccessfulPass(tasks[b]) =>
            LET pass == tasks[b].pass
                k == Len(pass.events_serialized)
            IN /\ pass.events_serialized = Events(SubSeq(pass.entry, 1, k))
               /\ \A j \in 1..k : BufferAfter(pass.entry, j) < MAX_PAYLOAD_BYTES
               /\ k < Len(pass.entry) =>
                      /\ BufferAfter(pass.entry, k + 1) >= MAX_PAYLOAD_BYTES
                      /\ pass.events = SubSeq(pass.entry, k + 1, Len(pass.entry))

\* A pass stopped at an event that did not fit although the event behind it
\* would have fitted in the space left.
GreedyPrefixWitness ==
    \E b \in DOMAIN tasks :
        /\ SuccessfulPass(tasks[b])
        /\ tasks[b].pass.events_serialized # <<>>
        /\ Len(tasks[b].pass.events) >= 2
        /\ Len(tasks[b].pass.buf) + tasks[b].pass.events[2].event.len < MAX_PAYLOAD_BYTES

\* ---------------------------------------------------- claims on scenarios
Lens(events) == [i \in 1..Len(events) |-> events[i].len]

\* A build_request call on three events of 40 encoded bytes under a cap of
\* 100 bytes.
ThreeForties(t) == MAX_PAYLOAD_BYTES = 100 /\ Lens(t.input) = <<40, 40, 40>>

\* C15. Cap 100 and three queued events of 40 bytes: the first pass returns
\* the first two events and leaves the third alone in the queue; the next
\* pass returns the third, which goes out in a second request.
ScenarioTwoThenOne ==
    \A b \in DOMAIN tasks :
        ThreeForties(tasks[b]) =>
            LET t == tasks[b]
            IN /\ t.passes <= 2
               /\ t.passes = 1 =>
                      /\ t.pass.ok
                      /\ Ids(t.pass.events_serialized) = <<1, 2>>
                      /\ Ids(Events(t.pass.events)) = <<3>>
               /\ t.passes = 2 =>
                      /\ t.pass.ok
                      /\ Ids(t.pass.events_serialized) = <<3>>
                      /\ t.pass.events = <<>>
               /\ t.result = "Ok" =>
                      /\ Len(t.requests) = 2
                      /\ t.requests[1].body =
                             <<LBRACKET>> \o to_writer(t.input[1]) \o <<COMMA>>
                                 \o to_writer(t.input[2]) \o <<RBRACKET>>
                      /\ t.requests[1].event_count = 2
                      /\ t.requests[2].body =
                             <<LBRACKET>> \o to_writer(t.input[3]) \o <<RBRACKET>>
                      /\ t.requests[2].event_count = 1

\* The call on the three events returned its two requests.
ScenarioTwoThenOneWitness ==
    \E b \in DOMAIN tasks :
        /\ ThreeForties(tasks[b])
        /\ tasks[b].result = "Ok"
        /\ tasks[b].passes = 2

\* C16 as stated: the first container of that scenario is 82 bytes long.
FirstContainer82 ==
    \A b \in DOMAIN tasks :
        ThreeForties(tasks[b]) /\ tasks[b].passes = 1 => Len(tasks[b].pass.buf) = 82

\* C16 amended: the first container of that scenario, holding the first two
\* events, is 83 bytes long: two encodings of 40 bytes, one comma and the
\* two brackets; the request built from it has that uncompressed size.
FirstContainer83 ==
    \A b \in DOMAIN tasks :
        ThreeForties(tasks[b]) =>
            /\ tasks[b].passes = 1 => Len(tasks[b].pass.buf) = 83
            /\ tasks[b].requests # <<>> =>
                   /\ Len(tasks[b].requests[1].body) = 83
                   /\ tasks[b].requests[1].uncompressed_size = 83

\* The first request of the scenario was built.
FirstContainer83Witness ==
    \E b \in DOMAIN tasks :
        /\ ThreeForties(tasks[b])
        /\ tasks[b].passes = 1
        /\ Len(tasks[b].requests) = 1

\* C17. Cap 100 and a batch of one event of 150 encoded bytes: build_request
\* returns Ok with no request, the event is dropped and one signal of a
\* dropped event is emitted.
ScenarioOversized ==
    \A b \in DOMAIN tasks :
        MAX_PAYLOAD_BYTES = 100 /\ Lens(tasks[b].input) = <<150>>
                                /\ tasks[b].pc # "loop" =>
            /\ tasks[b].result = "Ok"
            /\ tasks[b].requests = <<>>
            /\ tasks[b].dropped = <<1>>
            /\ tasks[b].passes = 1
            /\ events_dropped = 1

\* The call on the one oversized event returned.
ScenarioOversizedWitness ==
    \E b \in DOMAIN tasks :
        /\ MAX_PAYLOAD_BYTES = 100
        /\ Lens(tasks[b].input) = <<150>>
        /\ tasks[b].pc = "returned"

\* ------------------------------------------------- claims on the pipeline
\* The partition key of the batch an invocation was spawned on.
BatchKey(t) == t.input[1].key

\* C12. Routing key: the requests of a batch carry the partition key of the
\* batch, or the default key when the batch has none; all requests of one
\* batch carry the same key; a call on a batch without a key fails only
\* when serialization or compression fails.
RoutingKey ==
    \A b \in DOMAIN tasks :
        LET t == tasks[b]
            expected == IF BatchKey(t) = "none" THEN default_api_key ELSE BatchKey(t)
        IN /\ \A i \in 1..Len(t.input) : t.input[i].key = BatchKey(t)
           /\ \A i \in 1..Len(t.requests) : t.requests[i].api_key = expected
           /\ t.pc = "yielded" /\ t.result = "Ok" =>
                  \A i \in 1..Len(t.requests) :
                      \E j \in 1..Len(handed \o outbound) :
                          /\ (handed \o outbound)[j].finalizers = t.requests[i].finalizers
                          /\ (handed \o outbound)[j].api_key = expected
           /\ Failed(t) => t.cause \in {"serde_json", "codec"}

\* A batch without a key and a batch with key A each gave a request that
\* reached the driver.
RoutingKeyWitness ==
    \E b1, b2 \in DOMAIN tasks :
        /\ BatchKey(tasks[b1]) = "none"
        /\ BatchKey(tasks[b2]) = "A"
        /\ \A b \in {b1, b2} :
               /\ tasks[b].pc = "yielded"
               /\ tasks[b].requests # <<>>
               /\ \E j \in 1..Len(handed) : handed[j] = tasks[b].requests[1]

\* The requests of a sequence that were built from the batch of invocation b.
OfBatch(b, requests) ==
    SelectSeq(requests, LAMBDA r : r.finalizers \subseteq Range(tasks[b].batch))

IsPrefix(s, t) == Len(s) <= Len(t) /\ s = SubSeq(t, 1, Len(s))

\* C13. Per-batch order: the requests of one batch enter the outbound
\* stream, and reach the driver, in the order build_request pushed them,
\* whatever the other invocations do meanwhile.
PerBatchOrder ==
    \A b \in DOMAIN tasks :
        /\ OfBatch(b, handed \o outbound) =
               IF tasks[b].pc = "yielded" /\ tasks[b].result = "Ok"
               THEN tasks[b].requests ELSE <<>>
        /\ IsPrefix(OfBatch(b, handed), tasks[b].requests)

\* Two requests of one batch reached the driver while an invocation spawned
\* before theirs was still running.
PerBatchOrderWitness ==
    \E b1, b2 \in DOMAIN tasks :
        /\ b2 < b1
        /\ tasks[b2].pc = "loop"
        /\ Len(tasks[b1].requests) >= 2
        /\ OfBatch(b1, handed) = tasks[b1].requests

\* Event ids in a sequence of batches.
RECURSIVE BatchedIds(_)
BatchedIds(batches) ==
    IF batches = <<>> THEN {} ELSE Range(Ids(Head(batches))) \cup BatchedIds(Tail(batches))

\* Everything admitted went through: no batch is open or waiting, every
\* admitted event was given to an invocation, every invocation has returned
\* and yielded, and its requests were handed to the driver.
Flushed ==
    /\ \A k \in DOMAIN open : open[k] = <<>>
    /\ ready = <<>>
    /\ BatchedIds([b \in 1..Len(tasks) |-> tasks[b].input]) = 1..admitted
    /\ \A b \in DOMAIN tasks :
           /\ tasks[b].pc = "yielded"
           /\ tasks[b].result # "pending"
           /\ tasks[b].result = "Ok" => OfBatch(b, handed) = tasks[b].requests
    /\ outbound = <<>>

\* Work left in the pipeline: every event and request weighs more the
\* farther it is from the driver's response.
Backlog ==
    LET RECURSIVE SumOpen(_)
        SumOpen(K) == IF K = {} THEN 0
                      ELSE LET k == CHOOSE x \in K : TRUE IN Len(open[k]) + SumOpen(K \ {k})
        RECURSIVE SumReady(_)
        SumReady(i) == IF i = 0 THEN 0 ELSE Len(ready[i].events) + SumReady(i - 1)
        InTask(t) == IF t.pc = "yielded" THEN 0
                     ELSE 6 * Len(t.queue) + 3 * Len(t.requests)
                              + (IF t.pc = "loop" THEN 2 ELSE 1)
        RECURSIVE SumTasks(_)
        SumTasks(b) == IF b = 0 THEN 0 ELSE InTask(tasks[b]) + SumTasks(b - 1)
    IN 10 * SumOpen(DOMAIN open) + 9 * SumReady(Len(ready)) + SumTasks(Len(tasks))
           + 2 * Len(outbound) + Cardinality(in_service) + (IF done THEN 0 ELSE 1)

\* C14. Shutdown: completion is reported only after the input has ended and
\* every admitted event has been emitted in a batch (the partial batches
\* too), every invocation has run to completion and its requests have been
\* handed to the driver; and it is reported: after the end of the input a
\* running builder (one in its loop, with events in its queue) or another
\* stage can always step until then, and every step reduces the work left.
Shutdown ==
    /\ [](done => upstream = "ended" /\ Flushed)
    /\ [](upstream = "ended" /\ ~done =>
             (\E b \in Building : tasks[b].queue # <<>>) \/ ENABLED Drain)
    /\ [][upstream = "ended" => Backlog' < Backlog]_vars

\* Completion was reported after the input ended on a partial batch of each
\* key, one of them built into a request.
ShutdownWitness ==
    /\ done
    /\ Len(tasks) = 2
    /\ tasks[1].batch # <<>> /\ BatchKey(tasks[1]) # BatchKey(tasks[2])
    /\ \A b \in DOMAIN tasks : Len(tasks[b].input) < BatchMaxEvents
    /\ \E b \in DOMAIN tasks : OfBatch(b, handed) # <<>>

\* Batches emitted by the batcher so far, in the order of emission, each
\* with the key it was emitted under (the key handed to its builder).
Emitted ==
    [b \in 1..Len(tasks) |-> [key |-> tasks[b].api_key, events |-> tasks[b].input]] \o ready

\* The events submitted so far are one with key A and one with key B.
OneAOneB ==
    LET all == Flatten([i \in 1..Len(Emitted) |-> Emitted[i].events])
                   \o Flatten([i \in 1..2 |-> open[IF i = 1 THEN "A" ELSE "B"]])
    IN /\ DOMAIN open = {"A", "B"}
       /\ Len(all) = 2
       /\ {all[i].key : i \in 1..2} = {"A", "B"}

\* C18. Batcher with max-count 1, one event with key A and one with key B,
\* in either order: every batch emitted holds one event, under the key of
\* that event, and once nothing is open there are two batches, one of the
\* A event under key A and one of the B event under key B.
TwoKeysTwoBatches ==
    OneAOneB =>
        /\ \A i \in 1..Len(Emitted) :
               /\ Len(Emitted[i].events) = 1
               /\ Emitted[i].events[1].key = Emitted[i].key
        /\ (\A k \in DOMAIN open : open[k] = <<>>) =>
               /\ Len(Emitted) = 2
               /\ {Emitted[i].key : i \in 1..2} = {"A", "B"}

\* The B event was submitted first, the A event second, and the batch of
\* the A event was emitted first.
TwoKeysTwoBatchesWitness ==
    /\ OneAOneB
    /\ Len(Emitted) = 2
    /\ Emitted[1].events[1].key = "A"
    /\ Emitted[1].events[1].id = 2

\* --------------------------------------- claims on the serializer, revisited
\* The encodings of a sequence of events with single commas between them.
RECURSIVE Joined(_)
Joined(events) ==
    IF events = <<>> THEN <<>>
    ELSE IF Len(events) = 1 THEN to_writer(events[1])
    ELSE to_writer(Head(events)) \o <<COMMA>> \o Joined(Tail(events))

\* C21. Rollback is exact: the container of a pass that committed k >= 1
\* events is the opening bracket, the k encodings with single commas between
\* them and the closing bracket, 2 + the k encoded lengths + k - 1 bytes
\* long; nothing of the event rolled back, and no comma for it, is left.
RollbackExact ==
    \A b \in DOMAIN tasks :
        SuccessfulPass(tasks[b]) /\ tasks[b].pass.events_serialized # <<>> =>
            LET pass == tasks[b].pass
                k == Len(pass.events_serialized)
            IN /\ pass.buf = <<LBRACKET>> \o Joined(pass.events_serialized) \o <<RBRACKET>>
               /\ Len(pass.buf) = 2 + EncodedBytes(pass.entry, k) + k - 1

\* A pass committed an event, wrote a comma and the next event, and rolled
\* that event back.
RollbackExactWitness ==
    \E b \in DOMAIN tasks :
        /\ SuccessfulPass(tasks[b])
        /\ tasks[b].pass.events_serialized # <<>>
        /\ tasks[b].pass.events # <<>>
        /\ Len(tasks[b].requests) = 1

\* The events of a batch, by id.
InputOf(t, id) == t.input[CHOOSE i \in 1..Len(t.input) : t.input[i].id = id]

TooLarge(event) == event.len >= MAX_PAYLOAD_BYTES - 1

\* C22. An event is dropped as too large exactly when its encoded length is
\* at least MAX_PAYLOAD_BYTES - 1, wherever it stands in the batch: every
\* dropped event is that long, a pass drops its head event if and only if
\* the head is that long, and a call that returns Ok has dropped every such
\* event of its batch.
DropThreshold ==
    \A b \in DOMAIN tasks :
        LET t == tasks[b]
        IN /\ \A i \in 1..Len(t.dropped) : TooLarge(InputOf(t, t.dropped[i]))
           /\ SuccessfulPass(t) =>
                  (TooLarge(Head(t.pass.entry).event) <=> t.pass.events_serialized = <<>>)
           /\ SuccessfulPass(t) /\ t.pass.events_serialized = <<>> =>
                  /\ t.dropped # <<>>
                  /\ t.dropped[Len(t.dropped)] = Head(t.pass.entry).event.id
           /\ t.result = "Ok" =>
                  \A i \in 1..Len(t.input) :
                      TooLarge(t.input[i]) <=> t.input[i].id \in Range(t.dropped)

\* A call returned Ok on a batch with an event of exactly
\* MAX_PAYLOAD_BYTES - 1 bytes behind a smaller one, and one of
\* MAX_PAYLOAD_BYTES - 2 bytes behind that.
DropThresholdWitness ==
    \E b \in DOMAIN tasks :
        /\ tasks[b].result = "Ok"
        /\ Len(tasks[b].input) = 3
        /\ tasks[b].input[2].len = MAX_PAYLOAD_BYTES - 1
        /\ tasks[b].input[3].len = MAX_PAYLOAD_BYTES - 2
        /\ tasks[b].dropped = <<2>>

\* C23. No empty request: every Wire Request of build_request holds at
\* least one event; a pass in which nothing fit adds no request; an empty
\* batch gives Ok with no request.
NoEmptyRequest ==
    /\ [](\A b \in DOMAIN tasks :
             /\ \A i \in 1..Len(tasks[b].requests) :
                    /\ tasks[b].requests[i].event_count >= 1
                    /\ tasks[b].requests[i].finalizers # {}
                    /\ Len(tasks[b].requests[i].body) >= 3
             /\ Len(tasks[b].requests) + Len(tasks[b].dropped) <= tasks[b].passes
             /\ tasks[b].input = <<>> =>
                    /\ tasks[b].result = "Ok"
                    /\ tasks[b].requests = <<>>
                    /\ tasks[b].passes = 0)
    /\ [][\A b \in DOMAIN tasks :
             b \in DOMAIN tasks' /\ tasks'[b].pass.ok
                 /\ tasks'[b].passes # tasks[b].passes
                 /\ tasks'[b].pass.events_serialized = <<>> =>
                 tasks'[b].requests = tasks[b].requests]_vars

\* A call returned Ok after a pass in which nothing fit and a pass that
\* gave a request.
NoEmptyRequestWitness ==
    \E b \in DOMAIN tasks :
        /\ tasks[b].result = "Ok"
        /\ tasks[b].dropped # <<>>
        /\ tasks[b].requests # <<>>
        /\ tasks[b].passes = 2

\* How often to_writer was called on event id in a call.
TimesWritten(t, id) == Cardinality({i \in 1..Len(t.written) : t.written[i] = id})

RequestIds(requests) == UNION {requests[i].finalizers : i \in 1..Len(requests)}

\* C25. Serialization work is bounded: in one build_request call an event
\* committed to a container is never handed to to_writer again, and every
\* event is handed to it at most twice, the second time at the head of the
\* pass after the one that rolled it back.
BoundedSerialization ==
    /\ [](\A b \in DOMAIN tasks :
             /\ \A i \in 1..Len(tasks[b].input) :
                    TimesWritten(tasks[b], tasks[b].input[i].id) <= 2
             /\ tasks[b].passes > 0 =>
                    \A i \in 2..Len(tasks[b].pass.written) :
                        TimesWritten(tasks[b], tasks[b].pass.written[i]) = 1)
    /\ [][\A b \in DOMAIN tasks :
             \A id \in RequestIds(tasks[b].requests) :
                 TimesWritten(tasks'[b], id) = TimesWritten(tasks[b], id)]_vars

\* An event was serialized twice: rolled back by one pass and committed at
\* the head of the next.
BoundedSerializationWitness ==
    \E b \in DOMAIN tasks :
        /\ Len(tasks[b].requests) = 2
        /\ \E id \in tasks[b].requests[2].finalizers : TimesWritten(tasks[b], id) = 2

\* C24. All-or-nothing per batch: when a serializer pass or finish_request
\* fails, build_request returns the error alone; the requests it had built
\* are discarded and never enter the outbound stream or reach the driver,
\* and the call makes no further pass on the events left in its queue.
AllOrNothing ==
    /\ [](\A b \in DOMAIN tasks :
             tasks[b].cause # "none" =>
                 /\ Failed(tasks[b])
                 /\ tasks[b].pc # "loop"
                 /\ tasks[b].requests = <<>>
                 /\ tasks[b].queue = <<>>
                 /\ OfBatch(b, handed \o outbound) = <<>>
                 /\ \A request \in in_service :
                        ~(request.finalizers \subseteq Range(tasks[b].batch)))
    /\ [][\A b \in DOMAIN tasks :
             Failed(tasks[b]) =>
                 /\ tasks'[b].passes = tasks[b].passes
                 /\ tasks'[b].written = tasks[b].written
                 /\ tasks'[b].result = tasks[b].result]_vars

\* A call failed in its second pass, after its first pass had built a
\* request from the first event of the batch, and its result was yielded.
AllOrNothingWitness ==
    \E b \in DOMAIN tasks :
        /\ Failed(tasks[b])
        /\ tasks[b].passes = 2
        /\ tasks[b].dropped = <<>>
        /\ tasks[b].pc = "yielded"
        /\ build_errors >= 1
====
